---- MODULE Spec2Model ----
(***************************************************************************)
(* Model of src/dashboard.py: a Streamlit script that is re-run from its   *)
(* first line on every user interaction.  One run reads the uploaded CSV,  *)
(* resolves the seven expected columns, cleans the frame (numeric          *)
(* coercion, date parsing, dropna, sort + drop_duplicates), builds the     *)
(* sidebar filters and renders the charts.                                 *)
(*                                                                         *)
(* Text is modelled as sequences of one-character strings so that          *)
(* lower(), replace() and lexicographic comparison are computed; a date    *)
(* string is a sequence of lexical tokens matched against the directives   *)
(* of a strptime format.                                                   *)
(***************************************************************************)
EXTENDS Integers, Sequences, FiniteSets, TLC

\* Largest number of data rows of an uploaded file.
MaxRows == 3

(***************************************************************************)
(* Characters and strings                                                  *)
(***************************************************************************)
UpperCase == <<"A","B","C","D","E","F","G","H","I","J","K","L","M",
               "N","O","P","Q","R","S","T","U","V","W","X","Y","Z">>

LowerCase == <<"a","b","c","d","e","f","g","h","i","j","k","l","m",
               "n","o","p","q","r","s","t","u","v","w","x","y","z">>

Digits == <<"0","1","2","3","4","5","6","7","8","9">>

\* The characters in use, in code-point order (what Python compares by).
CodePoints == <<" ", "-">> \o Digits \o UpperCase \o <<"_">> \o LowerCase

Range(s) == {s[i] : i \in DOMAIN s}

IndexOf(s, x) == CHOOSE i \in DOMAIN s : s[i] = x

\* str.lower() on one character, tabulated over the characters in use
LowerTable ==
    [c \in Range(CodePoints) |->
        IF c \in Range(UpperCase) THEN LowerCase[IndexOf(UpperCase, c)] ELSE c]

LowerChar(c) == LowerTable[c]

MapLower(s) == [i \in DOMAIN s |-> LowerChar(s[i])]

IsKept(c) == c \notin {" ", "_"}

\* c.lower().replace(" ", "").replace("_", "")
Normalise(s) == SelectSeq(MapLower(s), IsKept)

RankTable == [c \in Range(CodePoints) |-> IndexOf(CodePoints, c)]

CharRank(c) == RankTable[c]

\* Python's str < str
RECURSIVE StrLess(_, _)
StrLess(a, b) ==
    IF b = <<>> THEN FALSE
    ELSE IF a = <<>> THEN TRUE
    ELSE IF a[1] = b[1] THEN StrLess(Tail(a), Tail(b))
    ELSE CharRank(a[1]) < CharRank(b[1])

(***************************************************************************)
(* The expected columns (the keys of the dict `expected`, in dict order)   *)
(***************************************************************************)
KCountry  == <<"C","o","u","n","t","r","y">>
KStore    == <<"S","t","o","r","e">>
KAudit    == <<"A","u","d","i","t"," ","S","t","a","t","u","s">>
KEntity   == <<"E","n","t","i","t","y"," ","I","d">>
KEmployee == <<"E","m","p","l","o","y","e","e"," ","N","a","m","e">>
KResult   == <<"R","e","s","u","l","t">>
KSubmitted == <<"S","u","b","m","i","t","t","e","d"," ","F","o","r">>

ExpectedKeys == <<KCountry, KStore, KAudit, KEntity, KEmployee, KResult, KSubmitted>>

\* A missing value: dict.get's None, NaN, NaT.
None == <<>>

\* find_column(cols, target): the dict comprehension keeps the LAST header
\* of each normalised spelling; .get returns None when there is none.
find_column(cols, target) ==
    LET wanted == Normalise(target)
        hits == {i \in DOMAIN cols : Normalise(cols[i]) = wanted}
    IN IF hits = {} THEN None
       ELSE <<cols[CHOOSE i \in hits : \A j \in hits : j <= i]>>

\* `if not col`: None, or a header that is the empty string
IsFalsy(col) == col = None \/ col[1] = <<>>

\* Lines 43-48 from key number k on: the dict as remapped so far and, when
\* a key is not found, that key (the loop ends there).
RECURSIVE ResolveLoop(_, _, _)
ResolveLoop(cols, exp, k) ==
    IF k > Len(ExpectedKeys) THEN [expected |-> exp, missing |-> None]
    ELSE LET col == find_column(cols, ExpectedKeys[k])
         IN IF IsFalsy(col) THEN [expected |-> exp, missing |-> <<ExpectedKeys[k]>>]
            ELSE ResolveLoop(cols, [exp EXCEPT ![ExpectedKeys[k]] = col[1]], k + 1)

(***************************************************************************)
(* Data frames: the column names and the rows; a row carries its index     *)
(* label and one cell per column.  A text cell is [str |-> ...], a cell of *)
(* a numeric column [num |-> None or <<n>>], a cell of a datetime column   *)
(* [ts |-> None or <<yyyymmdd>>].                                          *)
(***************************************************************************)
EmptyFrame == [columns |-> <<>>, rows |-> <<>>]

ColPos(frame, name) == IndexOf(frame.columns, name)

Cell(frame, row, name) == row.cells[ColPos(frame, name)]

\* df[name], as the sequence of its values
Column(frame, name) == [i \in DOMAIN frame.rows |-> Cell(frame, frame.rows[i], name)]

\* df[name] = values
SetCol(frame, name, values) ==
    [frame EXCEPT !.rows =
        [i \in DOMAIN frame.rows |->
            [frame.rows[i] EXCEPT !.cells[ColPos(frame, name)] = values[i]]]]

RECURSIVE DecimalValue(_)
DecimalValue(s) ==
    IF s = <<>> THEN 0
    ELSE DecimalValue(SubSeq(s, 1, Len(s) - 1)) * 10 + (IndexOf(Digits, s[Len(s)]) - 1)

\* pd.to_numeric(errors='coerce') on one value: a run of digits is its
\* number, anything else NaN; a numeric cell stays as it is.
ToNumeric(cell) ==
    IF "str" \notin DOMAIN cell THEN cell
    ELSE IF cell.str # <<>> /\ \A i \in DOMAIN cell.str : cell.str[i] \in Range(Digits)
         THEN [num |-> <<DecimalValue(cell.str)>>]
         ELSE [num |-> None]

(***************************************************************************)
(* strptime: the tokens a directive accepts and the number each stands for *)
(***************************************************************************)
DirectiveTable ==
    [d \in {"%d", "%b", "%B", "%m", "%y", "%Y"} |->
        CASE d = "%d" -> ("01" :> 1) @@ ("15" :> 15)
          [] d = "%b" -> ("Jul" :> 7) @@ ("Aug" :> 8)
          [] d = "%B" -> ("July" :> 7) @@ ("August" :> 8)
          [] d = "%m" -> ("07" :> 7) @@ ("08" :> 8)
          [] d = "%y" -> ("25" :> 2025) @@ ("26" :> 2026)
          [] d = "%Y" -> ("2025" :> 2025) @@ ("2026" :> 2026)]

IsDirective(t) == t \in DOMAIN DirectiveTable

DayDirectives == {"%d"}
MonthDirectives == {"%b", "%B", "%m"}
YearDirectives == {"%y", "%Y"}

\* The number read by the directive of `fmt` that is in `kinds`.
FieldOf(s, fmt, kinds) ==
    LET i == CHOOSE j \in DOMAIN fmt : fmt[j] \in kinds
    IN DirectiveTable[fmt[i]][s[i]]

Timestamp(y, m, d) == y * 10000 + m * 100 + d

\* datetime.strptime(s, fmt), None when s does not match
Strptime(s, fmt) ==
    IF Len(s) = Len(fmt)
       /\ \A i \in DOMAIN fmt :
            IF IsDirective(fmt[i]) THEN s[i] \in DOMAIN DirectiveTable[fmt[i]]
            ELSE s[i] = fmt[i]
    THEN <<Timestamp(FieldOf(s, fmt, YearDirectives),
                     FieldOf(s, fmt, MonthDirectives),
                     FieldOf(s, fmt, DayDirectives))>>
    ELSE None

\* The list of line 54.
Formats == << <<"%d", "-", "%b", "-", "%y">>,
              <<"%d", " ", "%B", " ", "%Y">>,
              <<"%d", "/", "%m", "/", "%Y">>,
              <<"%d", " ", "%b", " ", "%Y">>,
              <<"%d", "-", "%B", "-", "%Y">> >>

\* pd.to_datetime(format=fmt, errors='coerce') on one value: a string is
\* parsed, NaT on failure; a value that is already a datetime is returned
\* unchanged and the format is not consulted.
ToDatetime(cell, fmt) ==
    IF "str" \in DOMAIN cell THEN [ts |-> Strptime(cell.str, fmt)] ELSE cell

NotNull(cell) == IF "str" \in DOMAIN cell THEN TRUE
                 ELSE IF "ts" \in DOMAIN cell THEN cell.ts # None
                 ELSE cell.num # None

NotNullCount(frame, name) ==
    Cardinality({i \in DOMAIN frame.rows : NotNull(Cell(frame, frame.rows[i], name))})

\* Lines 54-60: the column is overwritten under each format in turn until
\* more than half of its values are non-null.
RECURSIVE ParseDates(_, _, _)
ParseDates(frame, name, fmts) ==
    IF fmts = <<>> THEN frame
    ELSE LET col == Column(frame, name)
             parsed == SetCol(frame, name,
                              [i \in DOMAIN col |-> ToDatetime(col[i], Head(fmts))])
         IN IF 2 * NotNullCount(parsed, name) > Len(parsed.rows) THEN parsed
            ELSE ParseDates(parsed, name, Tail(fmts))


\* The frame as `df.dropna(...)` leaves it when its result is not assigned.
DropNaUnassigned(frame, name) == frame

\* df.dropna() without a subset: a row with any missing value goes.
DropNaAnyColumn(frame, name) ==
    [frame EXCEPT !.rows =
        SelectSeq(frame.rows,
                  LAMBDA r : \A j \in DOMAIN r.cells : NotNull(r.cells[j]))]

\* df.dropna(subset=[name])
DropNa(frame, name) ==
    [frame EXCEPT !.rows =
        SelectSeq(frame.rows, LAMBDA r : NotNull(Cell(frame, r, name)))]

(***************************************************************************)
(* sort_values and drop_duplicates                                         *)
(***************************************************************************)
\* Order of two values of one column; a missing value sorts last.
CellLess(x, y) ==
    IF "str" \in DOMAIN x THEN StrLess(x.str, y.str)
    ELSE IF "ts" \in DOMAIN x
         THEN x.ts # None /\ (y.ts = None \/ x.ts[1] < y.ts[1])
         ELSE x.num # None /\ (y.num = None \/ x.num[1] < y.num[1])

\* Row a sorts strictly before row b under the columns `by`, compared in turn.
RECURSIVE RowLess(_, _, _, _)
RowLess(frame, a, b, by) ==
    IF by = <<>> THEN FALSE
    ELSE LET x == Cell(frame, a, Head(by))
             y == Cell(frame, b, Head(by))
         IN IF CellLess(x, y) THEN TRUE
            ELSE IF CellLess(y, x) THEN FALSE
            ELSE RowLess(frame, a, b, Tail(by))

\* The rows with r put in front of the first row it sorts strictly before.
InsertRow(frame, sorted, r, by) ==
    LET later == {i \in DOMAIN sorted : RowLess(frame, r, sorted[i], by)}
        p == IF later = {} THEN Len(sorted) + 1
             ELSE CHOOSE i \in later : \A j \in later : i <= j
    IN SubSeq(sorted, 1, p - 1) \o <<r>> \o SubSeq(sorted, p, Len(sorted))

RECURSIVE SortedPrefix(_, _, _)
SortedPrefix(frame, n, by) ==
    IF n = 0 THEN <<>>
    ELSE InsertRow(frame, SortedPrefix(frame, n - 1, by), frame.rows[n], by)

\* df.sort_values(by): rows that compare equal keep their order (the
\* multi-column sort is a stable lexsort).
sort_values(frame, by) ==
    [frame EXCEPT !.rows = SortedPrefix(frame, Len(frame.rows), by)]

SameKey(frame, a, b, subset) ==
    \A i \in DOMAIN subset : Cell(frame, a, subset[i]) = Cell(frame, b, subset[i])

RECURSIVE KeepFirst(_, _, _)
KeepFirst(frame, subset, n) ==
    IF n = 0 THEN <<>>
    ELSE IF \E j \in 1..(n - 1) : SameKey(frame, frame.rows[j], frame.rows[n], subset)
         THEN KeepFirst(frame, subset, n - 1)
         ELSE Append(KeepFirst(frame, subset, n - 1), frame.rows[n])

RECURSIVE KeepLast(_, _, _)
KeepLast(frame, subset, n) ==
    IF n = 0 THEN <<>>
    ELSE IF \E j \in (n + 1)..Len(frame.rows) :
                SameKey(frame, frame.rows[j], frame.rows[n], subset)
         THEN KeepLast(frame, subset, n - 1)
         ELSE Append(KeepLast(frame, subset, n - 1), frame.rows[n])

\* df.drop_duplicates(subset, keep="last")
drop_duplicates_last(frame, subset) ==
    [frame EXCEPT !.rows = KeepLast(frame, subset, Len(frame.rows))]

\* Rows n.. of the frame with duplicates removed while iterating: after a
\* removal the row that follows is stepped over unexamined.
RECURSIVE RemoveWhileIterating(_, _, _, _)
RemoveWhileIterating(frame, subset, kept, n) ==
    IF n > Len(frame.rows) THEN kept
    ELSE IF \E j \in DOMAIN kept : SameKey(frame, kept[j], frame.rows[n], subset)
         THEN IF n = Len(frame.rows) THEN kept
              ELSE RemoveWhileIterating(frame, subset,
                                        Append(kept, frame.rows[n + 1]), n + 2)
         ELSE RemoveWhileIterating(frame, subset, Append(kept, frame.rows[n]), n + 1)

drop_duplicates_skipping(frame, subset) ==
    [frame EXCEPT !.rows = RemoveWhileIterating(frame, subset, <<>>, 1)]

\* df.drop_duplicates(subset, keep="first")
drop_duplicates(frame, subset) ==
    [frame EXCEPT !.rows = KeepFirst(frame, subset, Len(frame.rows))]

\* Lines 66-70.
Deduplicate(frame, exp) ==
    drop_duplicates(
        sort_values(frame, <<exp[KCountry], exp[KStore], exp[KEmployee], exp[KSubmitted]>>),
        <<exp[KCountry], exp[KStore], exp[KEmployee]>>)

(***************************************************************************)
(* Filtering and the aggregates                                            *)
(***************************************************************************)
\* df[name].unique(), as a set
Unique(frame, name) == {Cell(frame, frame.rows[i], name).str : i \in DOMAIN frame.rows}


\* The mask of lines 92-93 joined with | instead of &.
FilterRowsEither(frame, exp, sel_countries, sel_stores) ==
    [frame EXCEPT !.rows =
        SelectSeq(frame.rows,
                  LAMBDA r : \/ Cell(frame, r, exp[KCountry]).str \in sel_countries
                             \/ Cell(frame, r, exp[KStore]).str \in sel_stores)]

\* Lines 91-94.
FilterRows(frame, exp, sel_countries, sel_stores) ==
    [frame EXCEPT !.rows =
        SelectSeq(frame.rows,
                  LAMBDA r : /\ Cell(frame, r, exp[KCountry]).str \in sel_countries
                             /\ Cell(frame, r, exp[KStore]).str \in sel_stores)]

\* The non-null values of a numeric column, in row order.
RECURSIVE Values(_, _, _)
Values(frame, name, n) ==
    IF n = 0 THEN <<>>
    ELSE LET c == Cell(frame, frame.rows[n], name)
         IN IF c.num = None THEN Values(frame, name, n - 1)
            ELSE Append(Values(frame, name, n - 1), c.num[1])

RECURSIVE Sum(_)
Sum(s) == IF s = <<>> THEN 0 ELSE Head(s) + Sum(Tail(s))

Squares(s) == [i \in DOMAIN s |-> s[i] * s[i]]

\* Series.mean(): NaN over no values, else the fraction <<sum, count>>.
Mean(frame, name) ==
    LET v == Values(frame, name, Len(frame.rows))
    IN IF v = <<>> THEN None ELSE <<Sum(v), Len(v)>>

\* Series.std() (ddof=1): NaN over fewer than two values, else the square
\* root of the fraction <<n*sum(x^2) - sum(x)^2, n*(n-1)>>, kept squared.
Std(frame, name) ==
    LET v == Values(frame, name, Len(frame.rows))
        n == Len(v)
    IN IF n < 2 THEN None
       ELSE <<n * Sum(Squares(v)) - Sum(v) * Sum(v), n * (n - 1)>>


\* The chart drawn without the guard of line 182.
HasResultUnguarded(frame, name) == TRUE

\* Line 182: not filtered_df[Result].isnull().all()
HasResult(frame, name) == NotNullCount(frame, name) > 0

(***************************************************************************)
(* The month label (lines 73-74)                                           *)
(***************************************************************************)
MonthName == (7 :> <<"J","u","l","y">>) @@ (8 :> <<"A","u","g","u","s","t">>)

RECURSIVE DecimalString(_)
DecimalString(n) ==
    IF n < 10 THEN <<Digits[n + 1]>>
    ELSE Append(DecimalString(n \div 10), Digits[(n % 10) + 1])

\* strftime('%B %Y')
Strftime(ts) ==
    MonthName[(ts \div 100) % 100] \o <<" ">> \o DecimalString(ts \div 10000)

UnknownMonth == <<"U","n","k","n","o","w","n"," ","M","o","n","t","h">>

\* .mode()[0]: the most frequent label, the smallest of them on a tie; a
\* NaT has no label and is not counted.
MonthDisplay(frame, name) ==
    LET dated == {i \in DOMAIN frame.rows : Cell(frame, frame.rows[i], name).ts # None}
        label(i) == Strftime(Cell(frame, frame.rows[i], name).ts[1])
        count(l) == Cardinality({i \in dated : label(i) = l})
        labels == {label(i) : i \in dated}
        modes == {l \in labels : \A m \in labels : count(m) <= count(l)}
    IN IF labels = {} THEN UnknownMonth
       ELSE CHOOSE l \in modes : \A m \in modes : ~StrLess(m, l)

(***************************************************************************)
(* The uploaded files the model draws from                                 *)
(***************************************************************************)
\* A tolerated respelling of each expected header (case, space, underscore).
Respelled == << <<"c","o","u","n","t","r","y"," ">>,
                <<"S","T","O","R","E">>,
                <<"a","u","d","i","t","_","s","t","a","t","u","s">>,
                <<"E","n","t","i","t","y","I","D">>,
                <<"e","m","p","l","o","y","e","e"," ","n","a","m","e">>,
                <<"R","E","S","U","L","T">>,
                <<"S","u","b","m","i","t","t","e","d","_","F","o","r">> >>

Spellings == {"exact", "respelled", "absent"}

Header(k, how) == IF how = "exact" THEN ExpectedKeys[k] ELSE Respelled[k]

\* The indices of `spell` that are not absent, in increasing order.
RECURSIVE Present(_, _)
Present(spell, n) ==
    IF n = 0 THEN <<>>
    ELSE IF spell[n] = "absent" THEN Present(spell, n - 1)
         ELSE Append(Present(spell, n - 1), n)

\* The frame read_csv builds: record i of `records` (one text per expected
\* field) becomes the row of index label i - 1, under the headers `spell`.
MkFrame(spell, records) ==
    LET cols == Present(spell, Len(ExpectedKeys))
    IN [columns |-> [j \in DOMAIN cols |-> Header(cols[j], spell[cols[j]])],
        rows |-> [i \in DOMAIN records |->
                    [idx |-> i - 1,
                     cells |-> [j \in DOMAIN cols |-> [str |-> records[i][cols[j]]]]]]]

FR == <<"F","R">>
UK == <<"U","K">>
Store1 == <<"S","1">>
Store2 == <<"S","2">>
Ann == <<"A","n","n">>
Bob == <<"B","o","b">>

\* (Country, Store, Employee Name) of a record
KeyChoices == {<<FR, Store1, Ann>>, <<FR, Store1, Bob>>, <<UK, Store2, Ann>>}

\* (Result, Submitted For) of a record: 80 on 01-Jul-25, and a Result that
\* is no number on 15-Jul-25.
ValueChoices == { << <<"8","0">>,     <<"01", "-", "Jul", "-", "25">> >>,
                  << <<"a","b","c">>, <<"15", "-", "Jul", "-", "25">> >> }

\* (Result, Submitted For) with a date the first format does not read:
\* 01/07/2025, which the third format reads, and a text no format reads.
OtherDateChoices == { << <<"9","0">>, <<"01", "/", "07", "/", "2025">> >>,
                      << <<"7","0">>, <<"n/a">> >> }

Record(key, val) ==
    <<key[1], key[2], <<"O","K">>, <<"7">>, key[3], val[1], val[2]>>

RecordChoices ==
    {Record(k, v) : k \in KeyChoices, v \in ValueChoices}
        \cup {Record(<<FR, Store1, Ann>>, v) : v \in OtherDateChoices}

SeqsUpTo(S, n) == UNION {[1..k -> S] : k \in 0..n}

AllExact == [k \in DOMAIN ExpectedKeys |-> "exact"]

\* Files whose headers are spelled as expected, over every content.
ContentFiles ==
    {[readable |-> TRUE, frame |-> MkFrame(AllExact, recs)] :
        recs \in SeqsUpTo(RecordChoices, MaxRows)}

SampleRecords ==
    << Record(<<FR, Store1, Ann>>, << <<"8","0">>, <<"01", "-", "Jul", "-", "25">> >>),
       Record(<<FR, Store1, Ann>>, << <<"9","0">>, <<"15", "-", "Jul", "-", "25">> >>) >>

\* Files over every spelling of the headers, with one content.
HeaderFiles ==
    {[readable |-> TRUE, frame |-> MkFrame(spell, SampleRecords)] :
        spell \in [DOMAIN ExpectedKeys -> Spellings]}

\* A file read_csv raises on.
UnreadableFile == [readable |-> FALSE, frame |-> EmptyFrame]

\* A file with two headers of one normalised spelling: the expected headers
\* and, last, a second country column "country " holding UK.
TwoCountryColumnsFile ==
    LET base == MkFrame(AllExact, SampleRecords)
    IN [readable |-> TRUE,
        frame |-> [columns |-> Append(base.columns, Respelled[1]),
                   rows |-> [i \in DOMAIN base.rows |->
                               [base.rows[i] EXCEPT
                                   !.cells = Append(@, [str |-> UK])]]]]

Files == ContentFiles \cup HeaderFiles \cup {UnreadableFile, TwoCountryColumnsFile}

(***************************************************************************)
(* The script as a state machine                                           *)
(***************************************************************************)
VARIABLES
    uploaded_file,   \* None, or <<file>>: the uploader widget's value
    countries_sel,   \* None, or <<set>>: the session's value of "Select Country"
    stores_sel,      \* None, or <<set>>: the session's value of "Select Store"
    pc,              \* position of the current run of the script
    df,              \* the script's df
    expected,        \* the script's dict `expected`
    countries,       \* value returned by the Country multiselect
    stores,          \* value returned by the Store multiselect
    filtered_df,     \* the script's filtered_df
    month_display,   \* the script's month_display
    mean_score,      \* the script's mean_score
    std_dev,         \* the script's std_dev
    errors,          \* st.error messages of this run
    rendered         \* elements put on the page by this run, in order

vars == <<uploaded_file, countries_sel, stores_sel, pc, df, expected, countries,
          stores, filtered_df, month_display, mean_score, std_dev, errors, rendered>>

session == <<uploaded_file, countries_sel, stores_sel>>

Keys == Range(ExpectedKeys)

\* Lines 34-42: every key maps to itself.
ExpectedLiteral == [k \in Keys |-> k]

\* The state of the script's names and of the page before a run.
FreshRun ==
    /\ pc' = "start"
    /\ df' = EmptyFrame
    /\ expected' = ExpectedLiteral
    /\ countries' = {}
    /\ stores' = {}
    /\ filtered_df' = EmptyFrame
    /\ month_display' = None
    /\ mean_score' = None
    /\ std_dev' = None
    /\ errors' = <<>>
    /\ rendered' = <<>>

Init ==
    /\ uploaded_file = None
    /\ countries_sel = None
    /\ stores_sel = None
    /\ pc = "start"
    /\ df = EmptyFrame
    /\ expected = ExpectedLiteral
    /\ countries = {}
    /\ stores = {}
    /\ filtered_df = EmptyFrame
    /\ month_display = None
    /\ mean_score = None
    /\ std_dev = None
    /\ errors = <<>>
    /\ rendered = <<>>

\* st.error(...) with the st.stop() after it left out: the run goes on to
\* the charts.
ErrorNoStop(kind, fields) ==
    /\ errors' = Append(errors, [kind |-> kind, fields |-> fields])
    /\ rendered' = Append(rendered, "error")
    /\ pc' = "render"

\* st.error(...) followed by st.stop()
ErrorAndStop(kind, fields) ==
    /\ errors' = Append(errors, [kind |-> kind, fields |-> fields])
    /\ rendered' = Append(rendered, "error")
    /\ pc' = "stopped"

\* Lines 9-21 and 218-219: the header, then the upload widget.
ScriptStart ==
    /\ pc = "start"
    /\ IF uploaded_file = None
       THEN /\ rendered' = rendered \o <<"header", "uploader", "info">>
            /\ pc' = "done"
       ELSE /\ rendered' = rendered \o <<"header", "uploader">>
            /\ pc' = "read"
    /\ UNCHANGED <<session, df, expected, countries, stores, filtered_df,
                   month_display, mean_score, std_dev, errors>>

\* Lines 22-27: read_csv inside try/except.
ReadStep ==
    /\ pc = "read"
    /\ IF uploaded_file[1].readable
       THEN /\ df' = uploaded_file[1].frame
            /\ rendered' = Append(rendered, "delimiter")
            /\ pc' = "resolve"
            /\ UNCHANGED errors
       ELSE /\ ErrorAndStop("load", <<>>)
            /\ UNCHANGED df
    /\ UNCHANGED <<session, expected, countries, stores, filtered_df,
                   month_display, mean_score, std_dev>>

\* Lines 43-48: the keys are resolved in order; the first one that is not
\* found is reported and the run stops there.
ResolveStep ==
    /\ pc = "resolve"
    /\ LET r == ResolveLoop(df.columns, expected, 1)
       IN /\ expected' = r.expected
          /\ IF r.missing = None
             THEN pc' = "clean" /\ UNCHANGED <<errors, rendered>>
             ELSE ErrorAndStop("missing", r.missing)
    /\ UNCHANGED <<session, df, countries, stores, filtered_df,
                   month_display, mean_score, std_dev>>

\* Lines 50-63: Result to numeric, Submitted For to datetime, dropna.
CleanStep ==
    /\ pc = "clean"
    /\ LET results == Column(df, expected[KResult])
           numeric == SetCol(df, expected[KResult],
                             [i \in DOMAIN results |-> ToNumeric(results[i])])
       IN df' = DropNa(ParseDates(numeric, expected[KSubmitted], Formats),
                       expected[KSubmitted])
    /\ pc' = "dedup"
    /\ UNCHANGED <<session, expected, countries, stores, filtered_df,
                   month_display, mean_score, std_dev, errors, rendered>>

\* Lines 65-70.
DedupStep ==
    /\ pc = "dedup"
    /\ df' = Deduplicate(df, expected)
    /\ pc' = "filter"
    /\ UNCHANGED <<session, expected, countries, stores, filtered_df,
                   month_display, mean_score, std_dev, errors, rendered>>

\* st.sidebar.multiselect(options, default=options): the value the widget
\* holds in the session, the default when it has none yet.
Multiselect(sel, options) == IF sel = None THEN options ELSE sel[1]

\* Lines 72-94: the month label, the two sidebar filters (which from now on
\* hold their value in the session), filtered_df.
FilterStep ==
    /\ pc = "filter"
    /\ month_display' = <<MonthDisplay(df, expected[KSubmitted])>>
    /\ rendered' = rendered \o <<"month", "sidebar">>
    /\ countries' = Multiselect(countries_sel, Unique(df, expected[KCountry]))
    /\ stores' = Multiselect(stores_sel, Unique(df, expected[KStore]))
    /\ countries_sel' = <<countries'>>
    /\ stores_sel' = <<stores'>>
    /\ filtered_df' = FilterRows(df, expected, countries', stores')
    /\ pc' = "render"
    /\ UNCHANGED <<uploaded_file, df, expected, mean_score, std_dev, errors>>

\* Lines 96-216: the charts over df, then the aggregates over filtered_df.
RenderStep ==
    /\ pc = "render"
    /\ mean_score' = Mean(filtered_df, expected[KResult])
    /\ std_dev' = Std(filtered_df, expected[KResult])
    /\ rendered' = rendered
            \o <<"status_bar", "performance_bar", "country_histogram",
                 "employee_table", "store_histogram">>
            \o (IF HasResult(filtered_df, expected[KResult])
                THEN <<"pdf_chart">> ELSE <<>>)
            \o <<"mean_std", "strip_chart">>
    /\ pc' = "done"
    /\ UNCHANGED <<session, df, expected, countries, stores, filtered_df,
                   month_display, errors>>

\* The user uploads a file: the script runs again from the top.
Upload ==
    /\ pc = "done"
    /\ uploaded_file = None
    /\ \E f \in Files : uploaded_file' = <<f>>
    /\ FreshRun
    /\ UNCHANGED <<countries_sel, stores_sel>>

\* The user changes the Country multiselect to s: the script runs again.
SelectCountries ==
    /\ pc = "done"
    /\ "sidebar" \in Range(rendered)
    /\ \E s \in SUBSET Unique(df, expected[KCountry]) :
            s # countries /\ countries_sel' = <<s>>
    /\ FreshRun
    /\ UNCHANGED <<uploaded_file, stores_sel>>

\* The user changes the Store multiselect to s: the script runs again.
SelectStores ==
    /\ pc = "done"
    /\ "sidebar" \in Range(rendered)
    /\ \E s \in SUBSET Unique(df, expected[KStore]) :
            s # stores /\ stores_sel' = <<s>>
    /\ FreshRun
    /\ UNCHANGED <<uploaded_file, countries_sel>>

Next ==
    \/ ScriptStart
    \/ ReadStep
    \/ ResolveStep
    \/ CleanStep
    \/ DedupStep
    \/ FilterStep
    \/ RenderStep
    \/ Upload
    \/ SelectCountries
    \/ SelectStores

Spec == Init /\ [][Next]_vars

(***************************************************************************)
(* Properties                                                              *)
(***************************************************************************)
\* The frame read from the uploaded file, before any cleaning.
Raw == uploaded_file[1].frame

Rows(frame) == Range(frame.rows)

Labels(frame) == {r.idx : r \in Rows(frame)}

RawDate(q) == Cell(Raw, q, expected[KSubmitted]).str

RawResult(q) == Cell(Raw, q, expected[KResult]).str

DateOf(frame, r) == Cell(frame, r, expected[KSubmitted])

GroupOf(frame, r) ==
    <<Cell(frame, r, expected[KCountry]).str,
      Cell(frame, r, expected[KStore]).str,
      Cell(frame, r, expected[KEmployee]).str>>

\* The formats that read more than half of the uploaded dates.
MajorityFormats ==
    {f \in DOMAIN Formats :
        2 * Cardinality({q \in Rows(Raw) : Strptime(RawDate(q), Formats[f]) # None})
            > Len(Raw.rows)}

\* A file is uploaded and the run is past cleaning and deduplication.
Cleaned == uploaded_file # None /\ pc \in {"filter", "render", "done"}

\* A file is uploaded and the run has computed filtered_df.
Filtered == uploaded_file # None /\ pc \in {"render", "done"}

\* The outputs that come after reading the file and resolving the columns.
LaterOutputs ==
    {"month", "sidebar", "status_bar", "performance_bar", "country_histogram",
     "employee_table", "store_histogram", "pdf_chart", "mean_std", "strip_chart"}

\* C1: after cleaning (date parsing, dropna, deduplication) every record of
\* df, and so of filtered_df, has a Submitted For that is a non-null date.
C1_NoNullDate ==
    /\ Cleaned =>
         \A r \in Rows(df) : "ts" \in DOMAIN DateOf(df, r) /\ DateOf(df, r).ts # None
    /\ Filtered =>
         \A r \in Rows(filtered_df) : DateOf(filtered_df, r).ts # None

\* Reached: a cleaned, non-empty df from a file in which no format reads
\* more than half of the dates, so that rows were dropped.
C1_Witness ==
    /\ Cleaned
    /\ MajorityFormats = {}
    /\ df.rows # <<>>
    /\ Len(df.rows) < Len(Raw.rows)

\* C2: the deduplication step leaves at most one record per (Country, Store,
\* Employee Name); each record it leaves is one of the records that survived
\* date parsing, no record of its group that survived has an earlier date,
\* and every group that survived keeps a record.
C2_KeepsEarliest ==
    [][pc = "dedup" =>
        /\ \A i, j \in DOMAIN df'.rows :
              i # j => GroupOf(df', df'.rows[i]) # GroupOf(df', df'.rows[j])
        /\ \A r \in Rows(df') :
              /\ r \in Rows(df)
              /\ \A q \in Rows(df) :
                    GroupOf(df, q) = GroupOf(df', r)
                        => DateOf(df', r).ts[1] <= DateOf(df, q).ts[1]
        /\ \A q \in Rows(df) :
              \E r \in Rows(df') : GroupOf(df', r) = GroupOf(df, q)]_vars

\* Reached: the file holds a 15-Jul-25 record followed by a 01-Jul-25 record
\* of the same employee, and the deduplicated df holds the 01-Jul-25 one.
C2_Witness ==
    /\ pc = "filter"
    /\ \E p, q \in Rows(Raw) :
          /\ p.idx < q.idx
          /\ GroupOf(Raw, p) = GroupOf(Raw, q)
          /\ RawDate(p) = <<"15", "-", "Jul", "-", "25">>
          /\ RawDate(q) = <<"01", "-", "Jul", "-", "25">>
          /\ \E r \in Rows(df) : r.idx = q.idx /\ DateOf(df, r).ts = <<20250701>>
          /\ p.idx \notin Labels(df)

\* C3: whatever the Country and Store selections held by the session, and
\* however they were reached, filtered_df is the rows of df whose Country is
\* in the one and whose Store is in the other, in df's order, and its length
\* is the number of such rows.
C3_FilterIsSelection ==
    Filtered =>
        LET chosen == {r \in Rows(df) :
                          /\ GroupOf(df, r)[1] \in countries_sel[1]
                          /\ GroupOf(df, r)[2] \in stores_sel[1]}
        IN /\ Rows(filtered_df) = chosen
           /\ Len(filtered_df.rows) = Cardinality(chosen)
           /\ filtered_df.rows =
                SelectSeq(df.rows, LAMBDA r : r \in chosen)

\* Reached: both selections were changed, to FR and to store S2 (df has rows
\* of FR and rows of S2, none of both), and the run completed.
C3_Witness ==
    /\ pc = "done"
    /\ countries_sel = <<{FR}>>
    /\ stores_sel = <<{Store2}>>
    /\ \E r \in Rows(df) : GroupOf(df, r)[1] = FR
    /\ \E r \in Rows(df) : GroupOf(df, r)[2] = Store2
    /\ filtered_df.rows = <<>>

\* C4 (as stated): the missing-column error names exactly the set of all
\* expected fields that cannot be resolved from the uploaded headers.
C4_NamesAllMissing ==
    (pc = "stopped" /\ errors # <<>> /\ errors[1].kind = "missing") =>
        Range(errors[1].fields) =
            {k \in Keys : IsFalsy(find_column(Raw.columns, k))}

\* C5 (as stated): when some format of the list reads more than half of the
\* uploaded dates, the rows kept by date parsing are exactly the rows that
\* the first such format reads.
C5_FirstMajorityFormat ==
    (pc = "dedup" /\ MajorityFormats # {}) =>
        LET f == CHOOSE g \in MajorityFormats : \A h \in MajorityFormats : g <= h
        IN Labels(df) =
             {q.idx : q \in {x \in Rows(Raw) : Strptime(RawDate(x), Formats[f]) # None}}

\* C6: once an unreadable-file or a missing-column error is reported the run
\* is stopped, with exactly that one error, and none of the later outputs is
\* on the page.
C6_ErrorIsFatal ==
    ("error" \in Range(rendered) \/ errors # <<>>) =>
        /\ pc = "stopped"
        /\ Len(errors) = 1
        /\ Range(rendered) \cap LaterOutputs = {}

\* Reached: a run stopped on a missing column.
C6_Witness ==
    /\ pc = "stopped"
    /\ errors # <<>>
    /\ errors[1].kind = "missing"
    /\ rendered = <<"header", "uploader", "delimiter", "error">>

\* C7: with an empty Country or Store selection filtered_df has no rows, no
\* error is raised and the run is not stopped; when it is done the density
\* curve is not on the page and every other output is, the aggregates being
\* those of no values.
C7_EmptySelection ==
    (Filtered /\ (countries_sel[1] = {} \/ stores_sel[1] = {})) =>
        /\ filtered_df.rows = <<>>
        /\ errors = <<>>
        /\ pc = "done" =>
              /\ "pdf_chart" \notin Range(rendered)
              /\ LaterOutputs \ {"pdf_chart"} \subseteq Range(rendered)
              /\ mean_score = None
              /\ std_dev = None

\* Reached: the user emptied a selection over a df that has numeric Results,
\* and the run completed.
C7_Witness ==
    /\ pc = "done"
    /\ stores_sel = <<{}>>
    /\ countries_sel[1] # {}
    /\ HasResult(df, expected[KResult])

\* C8: deduplicating the deduplicated df again gives the same df, the same
\* records in the same order.
C8_DedupIdempotent ==
    Cleaned => Deduplicate(df, expected) = df

\* Reached: three records of one group survived date parsing, so the step
\* removed two of them.
C8_Witness ==
    /\ pc = "filter"
    /\ Len(Raw.rows) = 3
    /\ \A p, q \in Rows(Raw) : GroupOf(Raw, p) = GroupOf(Raw, q)
    /\ \A q \in Rows(Raw) : Strptime(RawDate(q), Formats[1]) # None
    /\ Len(df.rows) = 1

\* C9: bad values in the data never raise an error or stop the run; right
\* after the dropna, a record with a Result that is no number and a date the
\* parsing read is in df with a null Result, and a record whose date no
\* format reads is not in df.
C9_DataErrorsAbsorbed ==
    /\ pc \in {"clean", "dedup", "filter", "render", "done"} => errors = <<>>
    /\ pc = "dedup" =>
         \A q \in Rows(Raw) :
            /\ (/\ ToNumeric([str |-> RawResult(q)]).num = None
                /\ Strptime(RawDate(q), Formats[1]) # None)
                   => \E r \in Rows(df) :
                         r.idx = q.idx /\ Cell(df, r, expected[KResult]) = [num |-> None]
            /\ (\A f \in DOMAIN Formats : Strptime(RawDate(q), Formats[f]) = None)
                   => q.idx \notin Labels(df)

\* Reached: a file with a non-numeric Result and with an unreadable date has
\* been cleaned; the first record is kept, the second dropped.
C9_Witness ==
    /\ pc = "dedup"
    /\ \E q \in Rows(Raw) : RawResult(q) = <<"a","b","c">> /\ q.idx \in Labels(df)
    /\ \E q \in Rows(Raw) : RawDate(q) = <<"n/a">> /\ q.idx \notin Labels(df)

\* C10 (as stated): when filtered_df has no record with a non-null Result,
\* the page shows an error message in place of the mean and standard
\* deviation text.
C10_EmptyAggregateError ==
    (Filtered /\ pc = "done"
        /\ ~HasResult(filtered_df, expected[KResult])) =>
        /\ "error" \in Range(rendered)
        /\ "mean_std" \notin Range(rendered)

====
